---- MODULE Spec2Model ----
(***************************************************************************)
(* Batch driver of run_pretrained_openfold.py: main() and the helpers it   *)
(* calls (precompute_alignments, generate_feature_dict, round_up_seqlen,   *)
(* list_files_with_extensions).  External collaborators (alignment runner, *)
(* data pipeline, model, relaxation) are calls that either return or       *)
(* raise; what they compute is opaque.                                     *)
(***************************************************************************)
EXTENDS Integers, Sequences, FiniteSets, TLC

\* ---------------------------------------------------------------- bounds
MaxModels == 2
MaxFiles == 2
MaxFailures == 1
MaxRows == 2
MaxRecycle == 2
MaxSeqLen == 120
MaxLookups == 3

\* ------------------------------------------------------------- constants
TRACING_INTERVAL == 50
\* get_msa_stats: the value of a padding position and of a gap position
PadSentinel == 0
GapSentinel == 21

\* ------------------------------------------------------- input universe
\* A file name is the sequence of its dot-separated parts; a file's data
\* is the list of (tag, seq) records parse_fasta returns; a sequence is
\* its length and an identifier of its residues.
Chain(t, n, i) == [tag |-> t, seq |-> [len |-> n, id |-> i]]

FileUniverse ==
    { [name |-> <<"a", "fasta">>, data |-> <<Chain("A", 20, 1), Chain("B", 25, 2)>>],
      [name |-> <<"b", "fa">>, data |-> <<Chain("C", 60, 3), Chain("D", 40, 4)>>],
      [name |-> <<"c", "fasta">>, data |-> <<Chain("E", 50, 5)>>],
      [name |-> <<"a", "v2", "fasta">>, data |-> <<Chain("A", 70, 6), Chain("B", 30, 7)>>],
      [name |-> <<"d", "txt">>, data |-> <<Chain("F", 10, 8)>>] }

\* config_preset is the sequence of its underscore-separated tokens
Presets ==
    { <<"model", "1">>, <<"model", "1", "multimer", "v3">>, <<"seq", "model", "esm1b">> }

\* Directory listings (os.listdir order is arbitrary): sequences without
\* repetition of at most MaxFiles files of the universe
Listings ==
    { l \in UNION { [1..k -> FileUniverse] : k \in 0..MaxFiles } :
        \A i, j \in DOMAIN l : i # j => l[i] # l[j] }

\* (trace_model, config.data.predict.fixed_size): fixed_size is read only
\* when trace_model is set
TraceModes == { <<FALSE, FALSE>>, <<TRUE, TRUE>>, <<TRUE, FALSE>> }

None == <<>>
Unbound == -1

\* ------------------------------------------------------------ the state
VARIABLES
    args,                 \* parsed command line
    fixed_size,           \* config.data.predict.fixed_size
    listing,              \* os.listdir(args.fasta_dir)
    nModels,              \* number of models the generator yields
    pc,                   \* position in main
    scan_i,               \* index of the discovery loop
    targets,              \* zip(tag_list, seq_list, file_list)
    sorted_targets,
    feature_dicts,        \* the memo keyed by composite tag
    model,                \* index of the current model (0: none yet)
    ti,                   \* index of the current target in sorted_targets
    ci,                   \* index of the chain inside precompute_alignments
    cur_tracing_interval,
    rounded_seqlen,       \* local of main, Unbound until first assigned
    feature_dict,         \* local of main
    files,                \* regular files on disk
    dirs,                 \* directories created by the run
    status,               \* state of every (model, target) pair
    calls,                \* log of the calls to external collaborators
    decisions,            \* log of the recompilation decisions
    order,                \* log of the (model, target) pairs in start order
    failures,             \* log of the exceptions the collaborators raised
    stats,                \* a call of get_msa_stats: arguments, loop, result
    padding               \* the memo and the padding of one tag's record

vars == << args, fixed_size, listing, nModels, pc, scan_i, targets,
           sorted_targets, feature_dicts, model, ti, ci,
           cur_tracing_interval, rounded_seqlen, feature_dict, files, dirs,
           status, calls, decisions, order, failures, stats, padding >>

\* the state of main
mainvars == << args, fixed_size, listing, nModels, pc, scan_i, targets,
               sorted_targets, feature_dicts, model, ti, ci,
               cur_tracing_interval, rounded_seqlen, feature_dict, files,
               dirs, status, calls, decisions, order, failures >>

\* the state of the functions checked on their own
pure == << stats, padding >>

ctl == << pc, model, ti, ci >>
inputs == << args, fixed_size, listing, nModels >>
catalog == << scan_i, targets, sorted_targets >>
locals == << cur_tracing_interval, rounded_seqlen, feature_dict >>
disk == << files, dirs >>

\* ------------------------------------------------------ pure functions
\* "multimer" in args.config_preset
IsMultimerPreset(preset) == \E i \in DOMAIN preset : preset[i] = "multimer"

is_multimer == IsMultimerPreset(args.config_preset)

\* args.config_preset.startswith("seq")
StartsWithSeq(preset) == Len(preset) > 0 /\ preset[1] = "seq"

\* f.endswith((".fasta", ".fa"))
HasFastaExtension(name) ==
    Len(name) >= 2 /\ name[Len(name)] \in {"fasta", "fa"}

list_files_with_extensions(dir) ==
    SelectSeq(dir, LAMBDA f : HasFastaExtension(f.name))

\* "-".join(tags)
RECURSIVE JoinTags(_)
JoinTags(tags) ==
    IF tags = <<>> THEN ""
    ELSE IF Len(tags) = 1 THEN tags[1]
    ELSE tags[1] \o "-" \o JoinTags(Tail(tags))

\* sum([len(s) for s in target[1]])
RECURSIVE SumLen(_)
SumLen(seqs) == IF seqs = <<>> THEN 0 ELSE Head(seqs).len + SumLen(Tail(seqs))

\* the key counting the chains of the target instead of their residues
seq_sort_fn_chains(target) == Len(target.seqs)

seq_sort_fn(target) == SumLen(target.seqs)

\* sorted(..., key=seq_sort_fn): stable, ascending
RECURSIVE InsertSorted(_, _)
InsertSorted(x, s) ==
    IF s = <<>> THEN <<x>>
    ELSE IF seq_sort_fn(Head(s)) <= seq_sort_fn(x)
         THEN <<Head(s)>> \o InsertSorted(x, Tail(s))
         ELSE <<x>> \o s

RECURSIVE Sorted(_)
Sorted(s) ==
    IF s = <<>> THEN <<>>
    ELSE InsertSorted(s[Len(s)], Sorted(SubSeq(s, 1, Len(s) - 1)))

\* rounding down to a multiple of the interval
round_down_seqlen(seqlen) == (seqlen \div TRACING_INTERVAL) * TRACING_INTERVAL

\* 156-157
round_up_seqlen(seqlen) ==
    ((seqlen + TRACING_INTERVAL - 1) \div TRACING_INTERVAL) * TRACING_INTERVAL

\* parse_fasta(data): the tags and the sequences of a file, in file order
ParseTags(data) == [i \in DOMAIN data |-> data[i].tag]
ParseSeqs(data) == [i \in DOMAIN data |-> data[i].seq]

\* ---------------------------------------------------------------- paths
output_dir_base == <<"out">>
PrecomputedDir == <<"pre">>

alignment_dir ==
    IF args.use_precomputed_alignments = None
    THEN output_dir_base \o <<"alignments">>
    ELSE args.use_precomputed_alignments

tmp_fasta_path == output_dir_base \o <<"tmp_pid.fasta">>

\* the output directory the model generator yields with model m
output_directory(m) == output_dir_base \o <<"predictions", "model_" \o ToString(m)>>

\* args.config_preset as one path component
RECURSIVE PresetName(_)
PresetName(preset) ==
    IF preset = <<>> THEN ""
    ELSE IF Len(preset) = 1 THEN preset[1]
    ELSE preset[1] \o "_" \o PresetName(Tail(preset))

\* line 311
final_output_dir(m, target) ==
    output_directory(m) \o <<PresetName(args.config_preset), target.file_name>>

\* the legacy format whatever the flag says
unrelaxed_output_path_pdb(m, target) ==
    final_output_dir(m, target) \o <<"unrelaxed.pdb">>

\* lines 403-406
unrelaxed_output_path(m, target) ==
    final_output_dir(m, target) \o
        <<IF args.cif_output THEN "unrelaxed.cif" ELSE "unrelaxed.pdb">>

\* the relaxed sibling relax_protein writes
relaxed_output_path(m, target) ==
    final_output_dir(m, target) \o
        <<IF args.cif_output THEN "relaxed.cif" ELSE "relaxed.pdb">>

\* no call of get_msa_stats under way
StatsIdle == [pc |-> "idle"]
PaddingIdle == [pc |-> "idle"]

\* ------------------------------------------------------------- Init
Init ==
    /\ \E preset \in Presets, pre \in {None, PrecomputedDir},
          tm \in TraceModes, cif \in BOOLEAN, skip \in BOOLEAN, save \in BOOLEAN :
          /\ args = [ config_preset |-> preset,
                      use_precomputed_alignments |-> pre,
                      use_single_seq_mode |-> FALSE,
                      trace_model |-> tm[1],
                      cif_output |-> cif,
                      skip_relaxation |-> skip,
                      save_outputs |-> save ]
          /\ fixed_size = tm[2]
    /\ listing \in Listings
    /\ nModels \in 1..MaxModels
    /\ pc = "startup"
    /\ scan_i = 1
    /\ targets = <<>>
    /\ sorted_targets = <<>>
    /\ feature_dicts = <<>>
    /\ model = 0
    /\ ti = 0
    /\ ci = 0
    /\ cur_tracing_interval = 0
    /\ rounded_seqlen = Unbound
    /\ feature_dict = None
    /\ files = {}
    /\ dirs = {}
    /\ status = <<>>
    /\ calls = {}
    /\ decisions = {}
    /\ order = <<>>
    /\ failures = {}
    /\ stats = StatsIdle
    /\ padding = PaddingIdle

\* ------------------------------------------------------ startup, 199-270
\* the validation left out
TracingNeverRejected == FALSE

\* 222-224: tracing is requested and fixed_size mode is off
TracingRejected == args.trace_model /\ ~fixed_size

Startup ==
    /\ pc = "startup"
    /\ args' = [args EXCEPT !.use_single_seq_mode =
                   IF StartsWithSeq(args.config_preset) THEN TRUE ELSE @]
    /\ dirs' = dirs \cup {output_dir_base}
    /\ pc' = IF TracingRejected THEN "raised" ELSE "scan"
    /\ UNCHANGED << pure, fixed_size, listing, nModels, model, ti, ci, catalog,
                    feature_dicts, locals, files, status, calls, decisions, order,
                    failures >>

\* --------------------------------------------- target discovery, 272-294
fasta_files == list_files_with_extensions(listing)

\* the test with "not" dropped
SkipsFileInMultimer(tags) == is_multimer /\ Len(tags) # 1

\* 283: whether the discovery loop skips a file
SkipsFile(tags) == ~is_multimer /\ Len(tags) # 1

ScanFile ==
    /\ pc = "scan"
    /\ scan_i <= Len(fasta_files)
    /\ LET fasta_file == fasta_files[scan_i]
           tags == ParseTags(fasta_file.data)
           seqs == ParseSeqs(fasta_file.data)
       IN  targets' =
              IF SkipsFile(tags) THEN targets
              ELSE Append(targets, [ tag |-> JoinTags(tags),
                                     tags |-> tags,
                                     seqs |-> seqs,
                                     file_name |-> fasta_file.name[1],
                                     file |-> fasta_file.name ])
    /\ scan_i' = scan_i + 1
    /\ UNCHANGED << pure, inputs, ctl, sorted_targets, feature_dicts, locals, disk,
                    status, calls, decisions, order, failures >>

Pairs(n) == (1..nModels) \X (1..n)

\* 296-301
SortTargets ==
    /\ pc = "scan"
    /\ scan_i > Len(fasta_files)
    /\ sorted_targets' = Sorted(targets)
    /\ status' = [p \in Pairs(Len(targets)) |-> <<"Pending">>]
    /\ pc' = "load"
    /\ UNCHANGED << pure, inputs, model, ti, ci, scan_i, targets, feature_dicts,
                    locals, disk, calls, decisions, order, failures >>

\* ------------------------------------------------- the outer loops
cur == sorted_targets[ti]

State(p) == status[p][Len(status[p])]

Reach(st) == [status EXCEPT ![<<model, ti>>] = Append(@, st)]

\* the next iteration of "for ... in sorted_targets", or back to the
\* model generator after the last target
\* the loop over the targets left after its first iteration
NextTargetStops ==
    /\ pc' = "load"
    /\ ti' = ti
    /\ ci' = 0
    /\ model' = model

NextTarget ==
    /\ pc' = IF ti < Len(sorted_targets) THEN "start" ELSE "load"
    /\ ti' = IF ti < Len(sorted_targets) THEN ti + 1 ELSE ti
    /\ ci' = 0
    /\ model' = model

\* the handler leaving the loop over the targets instead of continuing
ExceptBreak ==
    /\ status' = Reach("Failed")
    /\ pc' = "load"
    /\ UNCHANGED << model, ti >>
    /\ ci' = 0

\* 459-463: except Exception ... continue
ExceptContinue ==
    /\ status' = Reach("Failed")
    /\ NextTarget

\* an external collaborator may raise
MayRaise == Cardinality(failures) < MaxFailures

RaisedAt(stage) == failures \cup {[model |-> model, ti |-> ti, at |-> stage]}

\* the next model starting with the previous model's compiled bucket
NextModelKeepsBucket ==
    /\ pc = "load"
    /\ model < nModels
    /\ model' = model + 1
    /\ ti' = IF Len(sorted_targets) > 0 THEN 1 ELSE 0
    /\ pc' = IF Len(sorted_targets) > 0 THEN "start" ELSE "load"
    /\ UNCHANGED << pure, inputs, ci, catalog, feature_dicts, locals, disk,
                    status, calls, decisions, order, failures >>

\* 303-304: the generator yields the next model
NextModel ==
    /\ pc = "load"
    /\ model < nModels
    /\ model' = model + 1
    /\ cur_tracing_interval' = 0
    /\ ti' = IF Len(sorted_targets) > 0 THEN 1 ELSE 0
    /\ pc' = IF Len(sorted_targets) > 0 THEN "start" ELSE "load"
    /\ UNCHANGED << pure, inputs, ci, catalog, feature_dicts, rounded_seqlen,
                    feature_dict, disk, status, calls, decisions, order,
                    failures >>

\* the generator is exhausted: main returns
Finish ==
    /\ pc = "load"
    /\ model = nModels
    /\ pc' = "finished"
    /\ UNCHANGED << pure, inputs, model, ti, ci, catalog, feature_dicts, locals,
                    disk, status, calls, decisions, order, failures >>

\* 310-314
StartTarget ==
    /\ pc = "start"
    /\ dirs' = dirs \cup {final_output_dir(model, cur)}
    /\ order' = Append(order, [ model |-> model, ti |-> ti, file |-> cur.file,
                                 total |-> SumLen(cur.seqs) ])
    /\ pc' = IF Len(cur.tags) > 0 THEN "align" ELSE "features"
    /\ ci' = IF Len(cur.tags) > 0 THEN 1 ELSE 0
    /\ status' = IF Len(cur.tags) > 0 THEN status ELSE Reach("AlignmentReady")
    /\ UNCHANGED << pure, inputs, model, ti, catalog, feature_dicts, locals, files,
                    calls, decisions, failures >>

\* ------------------------------------- precompute_alignments, 98-153
\* the test on the precomputed path left out
GeneratesAlways == TRUE

\* line 106: the alignments are generated by this run
GeneratesAlignments == args.use_precomputed_alignments = None

\* every chain's data directly in the alignment root
local_alignment_dir_flat(tag) == alignment_dir

\* line 104
local_alignment_dir(tag) == alignment_dir \o <<tag>>

\* what the alignment runner leaves in the directory it is given
RunnerOutput(dir) == dir \o <<"alignments">>

\* a call of a collaborator; present: the directory it is given already
\* holds alignment data when it is called
Call(fn, key, dir) ==
    [ fn |-> fn, model |-> model, ti |-> ti, ci |-> ci, key |-> key,
      dir |-> dir, present |-> RunnerOutput(dir) \in files ]

\* the collaborators one iteration of the loop invokes, in call order
AlignmentCalls(tag) ==
    IF GeneratesAlignments
    THEN (IF args.use_single_seq_mode
          THEN <<Call("embedding_generator.run", tag, alignment_dir)>>
          ELSE <<>>)
         \o <<Call("alignment_runner.run", tag, local_alignment_dir(tag))>>
    ELSE <<>>

Range(s) == { s[i] : i \in DOMAIN s }

\* one iteration of the loop over zip(tags, seqs), every call returning
AlignChain ==
    /\ pc = "align"
    /\ ci <= Len(cur.tags)
    /\ LET tag == cur.tags[ci]
       IN  /\ calls' = calls \cup Range(AlignmentCalls(tag))
           /\ dirs' = IF GeneratesAlignments
                      THEN dirs \cup {local_alignment_dir(tag)}
                      ELSE dirs
           \* the scratch file is written at 101 and removed at 153
           /\ files' = IF GeneratesAlignments
                       THEN (files \cup {RunnerOutput(local_alignment_dir(tag))})
                               \ {tmp_fasta_path}
                       ELSE files \ {tmp_fasta_path}
    /\ IF ci < Len(cur.tags)
       THEN /\ ci' = ci + 1
            /\ UNCHANGED << pure, pc, status >>
       ELSE /\ ci' = 0
            /\ pc' = "features"
            /\ status' = Reach("AlignmentReady")
    /\ UNCHANGED << pure, inputs, model, ti, catalog, feature_dicts, locals,
                    decisions, order, failures >>

\* one iteration in which call number k of the iteration raises: the
\* function is left at that call, line 153 is not reached
AlignChainRaises ==
    /\ pc = "align"
    /\ ci <= Len(cur.tags)
    /\ MayRaise
    /\ LET tag == cur.tags[ci]
           seq == AlignmentCalls(tag)
       IN  /\ \E k \in DOMAIN seq :
                 calls' = calls \cup Range(SubSeq(seq, 1, k))
           /\ dirs' = dirs \cup {local_alignment_dir(tag)}
           /\ files' = files \cup {tmp_fasta_path}
    /\ failures' = RaisedAt("alignment")
    /\ ExceptContinue
    /\ UNCHANGED << pure, inputs, catalog, feature_dicts, locals, decisions, order >>

\* ----------------------------------- feature record, 160-192, 318-332
\* the memo never consulted
CacheNever(tag) == FALSE

\* 318-319: feature_dicts.get(tag, None) is not None
CacheHit(tag) == tag \in DOMAIN feature_dicts

\* the data-pipeline call generate_feature_dict makes for a target
AssemblyCall(target) ==
    IF is_multimer
    THEN Call("process_fasta", target.tag, alignment_dir)
    ELSE IF Len(target.seqs) = 1
    THEN Call("process_fasta", target.tag, local_alignment_dir(target.tags[1]))
    ELSE Call("process_multiseq_fasta", target.tag, alignment_dir)

\* the record the data pipeline returns: n is feature_dict["aatype"].shape[-2]
FeatureRecord(target) ==
    [ tag |-> target.tag, tags |-> target.tags, seqs |-> target.seqs,
      n |-> SumLen(target.seqs) ]

pad_feature_dict_seq(fd, seqlen) == [fd EXCEPT !.n = seqlen]

\* 318: the record is in the memo
FeaturesCached ==
    /\ pc = "features"
    /\ CacheHit(cur.tag)
    /\ feature_dict' = feature_dicts[cur.tag]
    /\ status' = Reach("FeatureReady")
    /\ pc' = "process"
    /\ UNCHANGED << pure, inputs, model, ti, ci, catalog, feature_dicts,
                    cur_tracing_interval, rounded_seqlen, disk, calls,
                    decisions, order, failures >>

\* 319-332: the record is assembled, padded when tracing, and cached
FeaturesBuilt ==
    /\ pc = "features"
    /\ ~CacheHit(cur.tag)
    /\ calls' = calls \cup { Call("generate_feature_dict", cur.tag, alignment_dir),
                             AssemblyCall(cur) }
    /\ files' = files \ {tmp_fasta_path}
    /\ LET fd == FeatureRecord(cur)
           padded == IF args.trace_model
                     THEN pad_feature_dict_seq(fd, round_up_seqlen(fd.n))
                     ELSE fd
       IN  /\ rounded_seqlen' = IF args.trace_model
                                THEN round_up_seqlen(fd.n)
                                ELSE rounded_seqlen
           /\ feature_dict' = padded
           /\ feature_dicts' = (cur.tag :> padded) @@ feature_dicts
    /\ status' = Reach("FeatureReady")
    /\ pc' = "process"
    /\ UNCHANGED << pure, inputs, model, ti, ci, catalog, cur_tracing_interval,
                    dirs, decisions, order, failures >>

\* the data pipeline raises inside generate_feature_dict (line 190 is not
\* reached), or the padding raises after it has returned
FeaturesRaises ==
    /\ pc = "features"
    /\ ~CacheHit(cur.tag)
    /\ MayRaise
    /\ calls' = calls \cup { Call("generate_feature_dict", cur.tag, alignment_dir),
                             AssemblyCall(cur) }
    /\ \E at \in {"process_fasta"} \cup
                 (IF args.trace_model THEN {"pad_feature_dict_seq"} ELSE {}) :
          IF at = "process_fasta"
          THEN /\ files' = files \cup {tmp_fasta_path}
               /\ UNCHANGED << pure, rounded_seqlen, feature_dict >>
          ELSE /\ files' = files \ {tmp_fasta_path}
               /\ rounded_seqlen' = round_up_seqlen(FeatureRecord(cur).n)
               /\ feature_dict' = FeatureRecord(cur)
    /\ failures' = RaisedAt("features")
    /\ ExceptContinue
    /\ UNCHANGED << pure, inputs, catalog, feature_dicts, cur_tracing_interval,
                    dirs, decisions, order >>

\* --------------------------- feature processing and statistics, 334-366
\* 351: seq_length_1, seq_length_2 = map(len, seqs)
UnpacksTwoLengths(seqs) == Len(seqs) = 2

ProcessFeatures ==
    /\ pc = "process"
    /\ UnpacksTwoLengths(cur.seqs)
    /\ pc' = "trace"
    /\ UNCHANGED << pure, inputs, model, ti, ci, catalog, feature_dicts, locals,
                    disk, status, calls, decisions, order, failures >>

\* 351 raises ValueError
UnpackRaises ==
    /\ pc = "process"
    /\ ~UnpacksTwoLengths(cur.seqs)
    /\ ExceptContinue
    /\ UNCHANGED << pure, inputs, catalog, feature_dicts, locals, disk, calls,
                    decisions, order, failures >>

\* process_features, the device transfer or get_msa_stats raises
ProcessRaises ==
    /\ pc = "process"
    /\ MayRaise
    /\ failures' = RaisedAt("processing")
    /\ ExceptContinue
    /\ UNCHANGED << pure, inputs, catalog, feature_dicts, locals, disk, calls,
                    decisions, order >>

\* ------------------------------------------------------ tracing, 378-385
\* 379: the recompilation decision.  rounded_seqlen is assigned only at
\* 326, on a memo miss; it is bound whenever 379 is reached, because a memo
\* hit under tracing follows an earlier pass through 326.
ShouldRecompile == rounded_seqlen > cur_tracing_interval

Decision(d, done) ==
    [ model |-> model, ti |-> ti, decision |-> d, rounded |-> rounded_seqlen,
      before |-> cur_tracing_interval, n |-> feature_dict.n, traced |-> done ]

NoTracing ==
    /\ pc = "trace"
    /\ ~args.trace_model
    /\ pc' = "infer"
    /\ UNCHANGED << pure, inputs, model, ti, ci, catalog, feature_dicts, locals,
                    disk, status, calls, decisions, order, failures >>

TraceSkipped ==
    /\ pc = "trace"
    /\ args.trace_model
    /\ ~ShouldRecompile
    /\ decisions' = decisions \cup {Decision(FALSE, FALSE)}
    /\ pc' = "infer"
    /\ UNCHANGED << pure, inputs, model, ti, ci, catalog, feature_dicts, locals,
                    disk, status, calls, order, failures >>

TraceModel ==
    /\ pc = "trace"
    /\ args.trace_model
    /\ ShouldRecompile
    /\ decisions' = decisions \cup {Decision(TRUE, TRUE)}
    /\ cur_tracing_interval' = rounded_seqlen
    /\ status' = Reach("Compiled")
    /\ pc' = "infer"
    /\ UNCHANGED << pure, inputs, model, ti, ci, catalog, feature_dicts,
                    rounded_seqlen, feature_dict, disk, calls, order,
                    failures >>

\* trace_model_ raises: line 385 is not reached
TraceRaises ==
    /\ pc = "trace"
    /\ args.trace_model
    /\ ShouldRecompile
    /\ MayRaise
    /\ decisions' = decisions \cup {Decision(TRUE, FALSE)}
    /\ failures' = RaisedAt("tracing")
    /\ ExceptContinue
    /\ UNCHANGED << pure, inputs, catalog, feature_dicts, locals, disk, calls, order >>

\* --------------------------------------- inference and output, 387-458
\* run_model, prep_output
RunModel ==
    /\ pc = "infer"
    /\ calls' = calls \cup {Call("run_model", feature_dict.tag, <<>>)}
    /\ status' = Reach("Inferred")
    /\ pc' = "write"
    /\ UNCHANGED << pure, inputs, model, ti, ci, catalog, feature_dicts, locals,
                    disk, decisions, order, failures >>

RunModelRaises ==
    /\ pc = "infer"
    /\ MayRaise
    /\ calls' = calls \cup {Call("run_model", feature_dict.tag, <<>>)}
    /\ failures' = RaisedAt("inference")
    /\ ExceptContinue
    /\ UNCHANGED << pure, inputs, catalog, feature_dicts, locals, disk, decisions,
                    order >>

\* 414-458: what is left of the pair after the unrelaxed file is written
\* relaxation after every write
AfterWriteRelaxes == "relax"

AfterWrite ==
    IF ~args.skip_relaxation THEN "relax"
    ELSE IF args.save_outputs THEN "save" ELSE "end"

AfterRelax == IF args.save_outputs THEN "save" ELSE "end"

\* the pair is over without an exception
Completes(st) ==
    /\ status' = [status EXCEPT ![<<model, ti>>] = @ \o st \o <<"Done">>]
    /\ NextTarget

Continues(st, next) ==
    /\ status' = [status EXCEPT ![<<model, ti>>] = @ \o st]
    /\ pc' = next
    /\ UNCHANGED << model, ti, ci >>

\* 403-412
WriteUnrelaxed ==
    /\ pc = "write"
    /\ files' = files \cup {unrelaxed_output_path(model, cur)}
    /\ IF AfterWrite = "end"
       THEN Completes(<<"Written">>)
       ELSE Continues(<<"Written">>, AfterWrite)
    /\ UNCHANGED << pure, inputs, catalog, feature_dicts, locals, dirs, calls,
                    decisions, order, failures >>

\* the encoder raises inside the with block: open(..., "w") at 408 has
\* already created the file
WriteRaises ==
    /\ pc = "write"
    /\ MayRaise
    /\ files' = files \cup {unrelaxed_output_path(model, cur)}
    /\ failures' = RaisedAt("writing")
    /\ ExceptContinue
    /\ UNCHANGED << pure, inputs, catalog, feature_dicts, locals, dirs, calls,
                    decisions, order >>

\* 414-425
Relax ==
    /\ pc = "relax"
    /\ calls' = calls \cup {Call("relax_protein", cur.file_name, output_directory(model))}
    /\ files' = files \cup {relaxed_output_path(model, cur)}
    /\ IF AfterRelax = "end"
       THEN Completes(<<"Relaxed">>)
       ELSE Continues(<<"Relaxed">>, AfterRelax)
    /\ UNCHANGED << pure, inputs, catalog, feature_dicts, locals, dirs, decisions,
                    order, failures >>

RelaxRaises ==
    /\ pc = "relax"
    /\ MayRaise
    /\ calls' = calls \cup {Call("relax_protein", cur.file_name, output_directory(model))}
    /\ failures' = RaisedAt("relaxation")
    /\ ExceptContinue
    /\ UNCHANGED << pure, inputs, catalog, feature_dicts, locals, disk, decisions,
                    order >>

\* 427-455: the diagnostic files, in the order they are written
DiagnosticFiles(m, target) ==
    << final_output_dir(m, target) \o <<"analysis", "metric_dict.pkl">>,
       final_output_dir(m, target) \o <<"analysis", "msa_stats.csv">>,
       final_output_dir(m, target) \o <<"tmp", "raw_msa.pkl">> >>

DiagnosticDirs(m, target) ==
    { final_output_dir(m, target) \o <<"analysis">>,
      final_output_dir(m, target) \o <<"tmp">> }

SaveOutputs ==
    /\ pc = "save"
    /\ dirs' = dirs \cup DiagnosticDirs(model, cur)
    /\ files' = files \cup Range(DiagnosticFiles(model, cur))
    /\ Completes(<<"MetricsSaved">>)
    /\ UNCHANGED << pure, inputs, catalog, feature_dicts, locals, calls, decisions,
                    order, failures >>

\* an exception after k of the diagnostic files have been written
SaveRaises ==
    /\ pc = "save"
    /\ MayRaise
    /\ dirs' = dirs \cup DiagnosticDirs(model, cur)
    /\ \E k \in 0..2 :
          files' = files \cup Range(SubSeq(DiagnosticFiles(model, cur), 1, k))
    /\ failures' = RaisedAt("diagnostics")
    /\ ExceptContinue
    /\ UNCHANGED << pure, inputs, catalog, feature_dicts, locals, calls, decisions,
                    order >>

Next ==
    \/ Startup \/ ScanFile \/ SortTargets \/ NextModel \/ Finish
    \/ StartTarget \/ AlignChain \/ AlignChainRaises
    \/ FeaturesCached \/ FeaturesBuilt \/ FeaturesRaises
    \/ ProcessFeatures \/ UnpackRaises \/ ProcessRaises
    \/ NoTracing \/ TraceSkipped \/ TraceModel \/ TraceRaises
    \/ RunModel \/ RunModelRaises \/ WriteUnrelaxed \/ WriteRaises
    \/ Relax \/ RelaxRaises \/ SaveOutputs \/ SaveRaises

Spec == Init /\ [][Next]_vars

\* main is one sequential thread and every call it makes returns or
\* raises: a step that can be taken is taken
FairSpec == Spec /\ WF_vars(Next)

\* =================================================================
\* get_msa_stats, 68-95, on its own
\* =================================================================
\* main is not running
MainIdle ==
    /\ args = [ config_preset |-> <<"model", "1", "multimer", "v3">>,
                use_precomputed_alignments |-> None,
                use_single_seq_mode |-> FALSE,
                trace_model |-> FALSE,
                cif_output |-> FALSE,
                skip_relaxation |-> TRUE,
                save_outputs |-> FALSE ]
    /\ fixed_size = FALSE
    /\ listing = <<>>
    /\ nModels = 1
    /\ pc = "idle"
    /\ scan_i = 1
    /\ targets = <<>>
    /\ sorted_targets = <<>>
    /\ feature_dicts = <<>>
    /\ model = 0
    /\ ti = 0
    /\ ci = 0
    /\ cur_tracing_interval = 0
    /\ rounded_seqlen = Unbound
    /\ feature_dict = None
    /\ files = {}
    /\ dirs = {}
    /\ status = <<>>
    /\ calls = {}
    /\ decisions = {}
    /\ order = <<>>
    /\ failures = {}

\* a value that is neither padding nor a gap
Residue == 5

\* the chain lengths (seq_length_1, seq_length_2) of the calls
ChainLengths == { <<1, 1>>, <<2, 1>> }

Repeat(v, n) == [c \in 1..n |-> v]

\* the contents of one chain's columns in a row: all padding, all gaps,
\* all residues, a gap followed by residues
ChainParts(n) ==
    { Repeat(PadSentinel, n), Repeat(GapSentinel, n), Repeat(Residue, n),
      [c \in 1..n |-> IF c = 1 THEN GapSentinel ELSE Residue] }

\* the rows of width w of a call with first chain length l1: the first
\* chain's columns followed by whatever columns are left
MsaRows(w, l1) ==
    IF w <= l1 THEN ChainParts(w)
    ELSE { a \o b : a \in ChainParts(l1), b \in ChainParts(w - l1) }

\* the two-dimensional alignments of r rows and w columns
MsaSlices(r, w, l1) == [1..r -> MsaRows(w, l1)]

\* 76: (batch_msa != 0).any(dim=1)
AnyNonZero(row) == \E c \in DOMAIN row : row[c] # 0

\* the test of 85-86 asking for a gap anywhere instead of everywhere
HaveMsaAnyGap(part) == ~(\E c \in DOMAIN part : part[c] = GapSentinel)

\* 85-86: ~(msa == 21).all(dim=1), for one row
HaveMsa(part) == ~(\A c \in DOMAIN part : part[c] = GapSentinel)

\* the union in place of the symmetric difference
Either(a, b) == a \/ b

\* 88-89: ^ on booleans
Xor(a, b) == (a /\ ~b) \/ (~a /\ b)

\* x[:n] and x[n:] of a row
Upto(row, n) == SubSeq(row, 1, IF n < Len(row) THEN n ELSE Len(row))
From(row, n) == SubSeq(row, n + 1, Len(row))

CountTrue(flags) == Cardinality({ r \in DOMAIN flags : flags[r] })

\* 81, 84: the assertion on the number of columns
ShapeAsserted(w, l1, l2, homo) ==
    IF homo THEN w = l1 ELSE Len(From(Repeat(0, w), l1)) = l2

\* 76-94: the counts of one iteration
MsaStatsRow(slice, l1, homo) ==
    LET batch_msa == SelectSeq(slice, AnyNonZero)
        msa_1 == [r \in DOMAIN batch_msa |-> Upto(batch_msa[r], l1)]
        msa_2 == IF ~homo
                 THEN [r \in DOMAIN batch_msa |-> From(batch_msa[r], l1)]
                 ELSE msa_1
        have_msa_1 == [r \in DOMAIN batch_msa |-> HaveMsa(msa_1[r])]
        have_msa_2 == [r \in DOMAIN batch_msa |-> HaveMsa(msa_2[r])]
        pair_msa == [r \in DOMAIN batch_msa |-> have_msa_1[r] /\ have_msa_2[r]]
        unpair_msa_1 == [r \in DOMAIN batch_msa |-> Xor(have_msa_1[r], pair_msa[r])]
        unpair_msa_2 == [r \in DOMAIN batch_msa |-> Xor(have_msa_2[r], pair_msa[r])]
    IN  [ paired |-> CountTrue(pair_msa),
          unpaired_chain_1 |-> CountTrue(unpair_msa_1),
          unpaired_chain_2 |-> CountTrue(unpair_msa_2) ]

\* a call of get_msa_stats.  The view "total_" is given one
\* two-dimensional alignment, used in every iteration; the other views are
\* given one slice for each iteration, read when the iteration reaches it.
StatsInit ==
    /\ MainIdle
    /\ padding = PaddingIdle
    /\ \E prefix \in {"total_", "", "extra_"}, ls \in ChainLengths,
          homo \in BOOLEAN, n \in 1..MaxRecycle, r \in 0..MaxRows :
       \E w \in {ls[1], ls[1] + ls[2]} :
       \E total \in MsaSlices(r, w, ls[1]) :
          stats = [ pc |-> "loop", prefix |-> prefix,
                    seq_length_1 |-> ls[1], seq_length_2 |-> ls[2],
                    if_homo |-> homo, num_recycle |-> n,
                    rows |-> r, width |-> w,
                    all_msa |-> IF prefix = "total_" THEN total
                                ELSE [x \in 1..r |-> <<>>],
                    i |-> 0, batch_msa |-> <<>>, res |-> <<>> ]

\* 73-75: the alignments iteration i may be given
StatsSlices ==
    IF stats.prefix = "total_" THEN {stats.all_msa}
    ELSE MsaSlices(stats.rows, stats.width, stats.seq_length_1)

\* 71-94: one iteration of the loop; 95 after the last one
StatsIterate ==
    /\ stats.pc = "loop"
    /\ ShapeAsserted(stats.width, stats.seq_length_1, stats.seq_length_2, stats.if_homo)
    /\ \E slice \in StatsSlices :
          stats' = [stats EXCEPT
                      !.batch_msa = slice,
                      !.res = Append(@, MsaStatsRow(slice, stats.seq_length_1, stats.if_homo)),
                      !.i = @ + 1,
                      !.pc = IF stats.i + 1 = stats.num_recycle THEN "done" ELSE "loop"]
    /\ UNCHANGED << mainvars, padding >>

\* 81, 84: the assertion fails in the first iteration
StatsAssertRaises ==
    /\ stats.pc = "loop"
    /\ ~ShapeAsserted(stats.width, stats.seq_length_1, stats.seq_length_2, stats.if_homo)
    /\ stats' = [stats EXCEPT !.pc = "raised"]
    /\ UNCHANGED << mainvars, padding >>

StatsNext == StatsIterate \/ StatsAssertRaises

StatsSpec == StatsInit /\ [][StatsNext]_vars

\* =================================================================
\* the padding of a feature record, 318-332, on its own
\* =================================================================
\* the composite tag the lookups are made with
PaddingTag == "T"

\* a run that meets one tag whose assembled record has length n, with or
\* without tracing
PaddingInit ==
    /\ MainIdle
    /\ stats = StatsIdle
    /\ \E n \in 1..MaxSeqLen, trace \in BOOLEAN :
          padding = [ pc |-> "lookup", n |-> n, trace_model |-> trace,
                      feature_dicts |-> <<>>, feature_dict |-> None,
                      rounded_seqlen |-> Unbound, pads |-> 0, lookups |-> 0 ]

\* 319-332: the tag is not in the memo; the record is assembled, padded
\* when tracing, and cached
PaddingMiss ==
    /\ padding.pc = "lookup"
    /\ padding.lookups < MaxLookups
    /\ PaddingTag \notin DOMAIN padding.feature_dicts
    /\ LET fd == [n |-> padding.n]
           rounded == round_up_seqlen(fd.n)
           padded == IF padding.trace_model
                     THEN pad_feature_dict_seq(fd, rounded)
                     ELSE fd
       IN  padding' = [padding EXCEPT
                         !.rounded_seqlen = IF padding.trace_model THEN rounded ELSE @,
                         !.pads = IF padding.trace_model THEN @ + 1 ELSE @,
                         !.feature_dict = padded,
                         !.feature_dicts = (PaddingTag :> padded),
                         !.lookups = @ + 1]
    /\ UNCHANGED << mainvars, stats >>

\* 318: the tag is in the memo; the cached record is used as it is
PaddingHit ==
    /\ padding.pc = "lookup"
    /\ padding.lookups < MaxLookups
    /\ PaddingTag \in DOMAIN padding.feature_dicts
    /\ padding' = [padding EXCEPT
                     !.feature_dict = padding.feature_dicts[PaddingTag],
                     !.lookups = @ + 1]
    /\ UNCHANGED << mainvars, stats >>

PaddingNext == PaddingMiss \/ PaddingHit

PaddingSpec == PaddingInit /\ [][PaddingNext]_vars

\* =================================================================
\* Properties
\* =================================================================
Ended(p) == State(p) \in {"Done", "Failed"}

Started == { <<order[i].model, order[i].ti>> : i \in DOMAIN order }

\* p comes before q in the order of the two loops
Before(p, q) == p[1] < q[1] \/ (p[1] = q[1] /\ p[2] < q[2])

TwoChains(p) == UnpacksTwoLengths(sorted_targets[p[2]].seqs)

FailedPairs == { p \in DOMAIN status : State(p) = "Failed" }

RaisedPairs == { <<f.model, f.ti>> : f \in failures }

\* C1: an exception raised by any stage moves only the pair it was raised
\* in to Failed (the Failed pairs are the pairs an exception was raised in:
\* those a collaborator raised in and those line 351 raises in), and the
\* driver goes on: every pair after a Failed pair is started as soon as the
\* loops reach it, and when main has returned every pair has been
\* attempted and has ended.
C1_FailureIsolated ==
    /\ FailedPairs \subseteq RaisedPairs \cup { p \in DOMAIN status : ~TwoChains(p) }
    /\ RaisedPairs \subseteq FailedPairs
    /\ \A p \in FailedPairs : \A q \in DOMAIN status :
          Before(p, q) =>
             \/ q \in Started
             \/ pc = "start" /\ q = <<model, ti>>
             \/ pc \notin {"finished", "load"} /\ Before(<<model, ti>>, q)
             \/ pc = "load" /\ model < q[1]
    /\ pc = "finished" => \A q \in DOMAIN status : q \in Started /\ Ended(q)

\* a pair failed at a collaborator's exception, and a later target of the
\* same model and a target of a later model both ran to Done
C1_Witness ==
    /\ pc = "finished"
    /\ \E p \in RaisedPairs :
          /\ \E q \in DOMAIN status : q[1] = p[1] /\ q[2] > p[2] /\ State(q) = "Done"
          /\ \E q \in DOMAIN status : q[1] > p[1] /\ State(q) = "Done"

\* path lies inside directory dir
Under(dir, path) == Len(path) > Len(dir) /\ SubSeq(path, 1, Len(dir)) = dir

Target(p) == sorted_targets[p[2]]

OutputFilesOf(p) == { f \in files : Under(final_output_dir(p[1], Target(p)), f) }

UniqueStems ==
    \A i, j \in DOMAIN sorted_targets :
        sorted_targets[i].file_name = sorted_targets[j].file_name => i = j

AllTwoChains == \A i \in DOMAIN sorted_targets : UnpacksTwoLengths(sorted_targets[i].seqs)

\* C2: when exactly one exception was raised in a run, at whichever stage,
\* the pair it was raised in has no file in its output directory when main
\* returns, and every other pair has its unrelaxed structure file; stated
\* for worklists of two-chain targets with distinct file stems.
C2_FailedPairHasNoOutput ==
    (pc = "finished" /\ Cardinality(failures) = 1 /\ UniqueStems /\ AllTwoChains) =>
        \A p \in RaisedPairs :
            /\ OutputFilesOf(p) = {}
            /\ \A q \in DOMAIN status \ {p} :
                  unrelaxed_output_path(q[1], Target(q)) \in files

AssemblyCallsOf(tag) ==
    { c \in calls : c.fn = "generate_feature_dict" /\ c.key = tag }

Tags == { sorted_targets[i].tag : i \in DOMAIN sorted_targets }

\* C3 as claimed: generate_feature_dict is invoked at most once for each
\* composite tag in a run, whatever became of the earlier attempts.
C3_AssembledOncePerTag ==
    \A tag \in Tags : Cardinality(AssemblyCallsOf(tag)) <= 1

\* the invocations of assembly after which the record was cached
CachedAssembliesOf(tag) ==
    { c \in AssemblyCallsOf(tag) :
        [model |-> c.model, ti |-> c.ti, at |-> "features"] \notin failures }

\* C3 as amended: for each composite tag at most one invocation of
\* assembly ends with the record cached, every other invocation for the tag
\* comes before it and raised (in the data pipeline or in the padding), and
\* the record is in the memo exactly when such an invocation exists; so
\* once a tag's record is cached no later pair invokes assembly for it,
\* also when a pair with that tag ended in Failed.
C3_AssembledOnceCached ==
    \A tag \in Tags :
        /\ Cardinality(CachedAssembliesOf(tag)) <= 1
        /\ \A c \in CachedAssembliesOf(tag) : \A d \in AssemblyCallsOf(tag) :
              d = c \/ Before(<<d.model, d.ti>>, <<c.model, c.ti>>)
        /\ tag \in DOMAIN feature_dicts <=> CachedAssembliesOf(tag) # {}

Reached(p, st) == \E i \in DOMAIN status[p] : status[p][i] = st

\* two models have run; a tag was assembled once, by a pair that then
\* Failed, and the pair of the second model used the cached record
C3_Witness ==
    /\ pc = "finished"
    /\ \E p, q \in DOMAIN status :
          /\ Before(p, q)
          /\ Target(p).tag = Target(q).tag
          /\ Reached(p, "FeatureReady") /\ State(p) = "Failed"
          /\ Reached(q, "FeatureReady") /\ State(q) = "Done"
          /\ Cardinality(AssemblyCallsOf(Target(p).tag)) = 1

Max(S) == CHOOSE x \in S : \A y \in S : y <= x

\* the rounded length of a target's own feature record
OwnBucket(t) == round_up_seqlen(SumLen(sorted_targets[t].seqs))

\* the largest own bucket among the targets traced for model m before t
MaxCompiled(m, t) ==
    Max({0} \cup { OwnBucket(d.ti) : d \in { e \in decisions :
                        e.model = m /\ e.ti < t /\ e.traced } })

UniqueTags ==
    \A i, j \in DOMAIN sorted_targets :
        sorted_targets[i].tag = sorted_targets[j].tag => i = j

\* C4: with tracing, for every model, the recompilation decision taken for
\* a target is true exactly when the target's own rounded length exceeds
\* the largest bucket compiled so far for that model (so once per bucket of
\* the ascending worklist, and false for every later target of a bucket
\* already compiled); stated for worklists whose composite tags are unique
\* and runs in which no collaborator raises.
C4_RecompileOncePerBucket ==
    (UniqueTags /\ failures = {}) =>
        \A d \in decisions : d.decision = (OwnBucket(d.ti) > MaxCompiled(d.model, d.ti))

UnrelaxedFiles ==
    { f \in files : f[Len(f)] \in {"unrelaxed.pdb", "unrelaxed.cif"} }

\* C5: a batch of one single-chain target, not in multimer mode, one model,
\* relaxation skipped, diagnostics off, no collaborator raising: when main
\* has returned the pair is Done and exactly one unrelaxed file exists, at
\* the pair's output path.
C5_SingleChainEndToEnd ==
    ( /\ pc = "finished"
      /\ ~is_multimer
      /\ nModels = 1
      /\ args.skip_relaxation /\ ~args.save_outputs
      /\ failures = {}
      /\ Len(sorted_targets) = 1
      /\ Len(sorted_targets[1].seqs) = 1 )
    => /\ State(<<1, 1>>) = "Done"
       /\ UnrelaxedFiles = {unrelaxed_output_path(1, sorted_targets[1])}

\* the files of the listing the discovery loop has handled so far
Scanned == { fasta_files[i] : i \in 1..(scan_i - 1) }

InWorklist(f) ==
    IF pc \in {"startup", "scan"}
    THEN \E i \in DOMAIN targets : targets[i].file = f.name
    ELSE \E i \in DOMAIN sorted_targets : sorted_targets[i].file = f.name

\* C6: not in multimer mode, discovery never raises, every scanned file
\* that holds more than one sequence is absent from the worklist and is
\* never started by any model, and every scanned file that holds exactly
\* one sequence is in the worklist.
C6_MultiSequenceFilesSkipped ==
    ~is_multimer =>
        /\ pc = "raised" => scan_i = 1
        /\ \A f \in Scanned :
              /\ Len(f.data) > 1 =>
                    /\ ~InWorklist(f)
                    /\ \A i \in DOMAIN order : order[i].file # f.name
              /\ Len(f.data) = 1 => InWorklist(f)

\* a two-sequence file was skipped, a one-sequence file was kept and
\* started, and main has returned
C6_Witness ==
    /\ ~is_multimer
    /\ pc = "finished"
    /\ \E f \in Scanned : Len(f.data) > 1 /\ ~InWorklist(f)
    /\ \E f \in Scanned :
          Len(f.data) = 1 /\ InWorklist(f) /\ \E i \in DOMAIN order : order[i].file = f.name

\* the start log of model m
OrderOf(m) == SelectSeq(order, LAMBDA e : e.model = m)

\* C7: under every model the targets are started in non-decreasing total
\* sequence length, and every model starts them in the same order as the
\* first model.
C7_AscendingLength ==
    /\ \A i, j \in DOMAIN order :
          (i < j /\ order[i].model = order[j].model) => order[i].total <= order[j].total
    /\ \A m \in 1..nModels : \A k \in DOMAIN OrderOf(m) :
          /\ k <= Len(OrderOf(1))
          /\ OrderOf(m)[k].file = OrderOf(1)[k].file

\* two models have each run two targets of different total lengths that
\* the listing gives longest first
C7_Witness ==
    /\ pc = "finished"
    /\ nModels = 2
    /\ Len(OrderOf(2)) = 2
    /\ OrderOf(2)[1].total < OrderOf(2)[2].total
    /\ Len(targets) = 2
    /\ SumLen(targets[1].seqs) > SumLen(targets[2].seqs)

AlignmentTools == {"alignment_runner.run", "embedding_generator.run"}

\* C8: when a precomputed-alignments path is supplied, neither the
\* alignment runner nor the embedding generator is ever invoked, and every
\* invocation of feature assembly is handed exactly the supplied path.
C8_PrecomputedNeverAligns ==
    args.use_precomputed_alignments # None =>
        /\ \A c \in calls : c.fn \notin AlignmentTools
        /\ \A c \in calls :
              c.fn = "generate_feature_dict" => c.dir = args.use_precomputed_alignments

\* with a supplied path, two models have passed the alignment stage of a
\* target and assembly has been invoked
C8_Witness ==
    /\ args.use_precomputed_alignments # None
    /\ pc = "finished"
    /\ \E p, q \in DOMAIN status :
          /\ p[1] # q[1]
          /\ Reached(p, "AlignmentReady") /\ Reached(q, "AlignmentReady")
    /\ \E c \in calls : c.fn = "generate_feature_dict"

RunnerCalls == { c \in calls : c.fn = "alignment_runner.run" }

\* C9: when no precomputed path is supplied, the alignment runner is
\* invoked for a chain only if the chain's alignment data is not on disk
\* yet, and at most once for each chain tag in a run.
C9_AlignsOnlyWhenMissing ==
    args.use_precomputed_alignments = None =>
        /\ \A c \in RunnerCalls : ~c.present
        /\ \A c, d \in RunnerCalls : c.key = d.key => c = d

\* C10: the scratch FASTA file does not exist once precompute_alignments
\* (an iteration of its loop) or generate_feature_dict has returned or
\* raised.
C10_ScratchFileRemoved == tmp_fasta_path \notin files

\* C11: when tracing is requested and fixed_size mode is off, main raises
\* at startup: it never leaves startup except by raising, and when it has
\* raised no file has been scanned, no model loaded, no pair started, no
\* collaborator called and nothing was caught by the per-target handler.
C11_TracingNeedsFixedSize ==
    (args.trace_model /\ ~fixed_size) =>
        /\ pc \in {"startup", "raised"}
        /\ scan_i = 1 /\ targets = <<>> /\ sorted_targets = <<>>
        /\ model = 0
        /\ order = <<>> /\ calls = {} /\ files = {}
        /\ DOMAIN status = {} /\ failures = {}

\* main has raised at startup
C11_Witness == pc = "raised" /\ args.trace_model /\ ~fixed_size

\* the rows of a slice that are not entirely padding
NonPaddingRows(slice) ==
    { r \in DOMAIN slice : \E c \in DOMAIN slice[r] : slice[r][c] # PadSentinel }

\* the row has a position that is not a gap among the columns lo..hi
PresentIn(row, lo, hi) == \E c \in lo..hi : row[c] # GapSentinel

InChain1(row) == PresentIn(row, 1, stats.seq_length_1)
InChain2(row) ==
    PresentIn(row, stats.seq_length_1 + 1, stats.seq_length_1 + stats.seq_length_2)

\* C12: not in homo-mode, after every iteration of every view the row of
\* the result for that iteration holds, over the rows of the iteration's
\* alignment that are not entirely padding, the number of rows present in
\* both chains, in chain 1 only and in chain 2 only; there is one result
\* row for each iteration.
C12_StatsCountRows ==
    (stats.pc \in {"loop", "done"} /\ ~stats.if_homo) =>
        /\ Len(stats.res) = stats.i
        /\ stats.pc = "done" <=> stats.i = stats.num_recycle
        /\ stats.i > 0 =>
             LET slice == stats.batch_msa
                 kept == NonPaddingRows(slice)
                 row == stats.res[stats.i]
             IN  /\ row.paired =
                       Cardinality({ r \in kept : InChain1(slice[r]) /\ InChain2(slice[r]) })
                 /\ row.unpaired_chain_1 =
                       Cardinality({ r \in kept : InChain1(slice[r]) /\ ~InChain2(slice[r]) })
                 /\ row.unpaired_chain_2 =
                       Cardinality({ r \in kept : ~InChain1(slice[r]) /\ InChain2(slice[r]) })

\* a view with a recycling dimension was counted in two iterations: the
\* first found one row of chain 2 only and dropped the other row as
\* padding, the second found one paired row and one row of chain 1 only
C12_Witness ==
    /\ stats.pc = "done" /\ ~stats.if_homo /\ stats.prefix = ""
    /\ stats.i = 2
    /\ stats.res[2] = [paired |-> 1, unpaired_chain_1 |-> 1, unpaired_chain_2 |-> 0]
    /\ stats.res[1] = [paired |-> 0, unpaired_chain_1 |-> 0, unpaired_chain_2 |-> 1]

\* the unrelaxed structure files in the output directory of a pair
UnrelaxedFilesOf(p) ==
    { f \in OutputFilesOf(p) : f[Len(f)] \in {"unrelaxed.cif", "unrelaxed.pdb"} }

\* C13: a pair that has reached Written has exactly one unrelaxed
\* structure file in its output directory: unrelaxed.cif when
\* args.cif_output is set, unrelaxed.pdb otherwise.
C13_OneUnrelaxedFormat ==
    \A p \in DOMAIN status :
        Reached(p, "Written") =>
            UnrelaxedFilesOf(p) =
                { final_output_dir(p[1], Target(p)) \o
                    << IF args.cif_output THEN "unrelaxed.cif" ELSE "unrelaxed.pdb" >> }

\* with the archival flag set, a pair is Done and its only unrelaxed file
\* is the .cif one
C13_Witness ==
    /\ args.cif_output
    /\ \E p \in DOMAIN status :
          /\ State(p) = "Done"
          /\ Reached(p, "Written")
          /\ \E f \in UnrelaxedFilesOf(p) : f[Len(f)] = "unrelaxed.cif"

\* the unrelaxed path the pair wrote
WrittenPath(p) == unrelaxed_output_path(p[1], Target(p))

\* C14: no two distinct (model, target) pairs that reached Written wrote
\* the same unrelaxed output path.
C14_WriteOncePerPair ==
    \A p, q \in DOMAIN status :
        (p # q /\ Reached(p, "Written") /\ Reached(q, "Written")) =>
            WrittenPath(p) # WrittenPath(q)

\* C15 as stated: when the run generates the alignments, the runner is
\* given, for each chain, the directory
\* <alignment_root>/<composite_tag>/<chain_tag>, and chains of different
\* targets never share a directory.
C15_NestedUnderCompositeTag ==
    args.use_precomputed_alignments = None =>
        /\ \A c \in RunnerCalls :
              c.dir = alignment_dir \o <<sorted_targets[c.ti].tag, c.key>>
        /\ \A c, d \in RunnerCalls : c.ti # d.ti => c.dir # d.dir

\* C15: when the run generates the alignments, the runner is given, for
\* each chain, the directory <alignment_root>/<chain_tag>, which exists
\* by then; two chains have the same directory exactly when they have the
\* same chain tag, whatever their targets; and the run creates no other
\* directory under the alignment root.
C15_PerChainDirectory ==
    args.use_precomputed_alignments = None =>
        /\ \A c \in RunnerCalls :
              /\ c.dir = alignment_dir \o <<c.key>>
              /\ c.dir \in dirs
        /\ \A c, d \in RunnerCalls : c.dir = d.dir <=> c.key = d.key
        /\ \A d \in dirs :
              Under(alignment_dir, d) =>
                  \E i \in DOMAIN sorted_targets :
                      \E k \in DOMAIN sorted_targets[i].tags :
                          d = alignment_dir \o <<sorted_targets[i].tags[k]>>

\* the runner has been called for chains of two different targets that
\* have the same chain tag, and for two chains of one target
C15_Witness ==
    /\ args.use_precomputed_alignments = None
    /\ \E c, d \in RunnerCalls : c.ti # d.ti /\ c.key = d.key /\ c.dir = d.dir
    /\ \E c, d \in RunnerCalls : c.ti = d.ti /\ c.key # d.key

\* every (model, target) pair was started exactly once and has ended
AllPairsAttemptedOnce ==
    /\ Started = Pairs(Len(sorted_targets))
    /\ Len(order) = Cardinality(Pairs(Len(sorted_targets)))
    /\ DOMAIN status = Pairs(Len(sorted_targets))
    /\ \A p \in DOMAIN status : Ended(p)

StageOrder ==
    << "Pending", "AlignmentReady", "FeatureReady", "Compiled", "Inferred",
       "Written", "Relaxed", "MetricsSaved", "Done", "Failed" >>

StageRank(st) == CHOOSE i \in DOMAIN StageOrder : StageOrder[i] = st

\* the stages no pair skips on its way to a later stage
MandatoryStages ==
    {"Pending", "AlignmentReady", "FeatureReady", "Inferred", "Written"}

\* C17: the trail of stages of every pair starts at Pending and is
\* strictly ascending in the order alignment, feature record, tracing,
\* inference, unrelaxed file, relaxation, diagnostics; a stage is reached
\* only after every earlier stage that is not optional; tracing happens
\* only with args.trace_model and a positive recompilation decision,
\* relaxation only without args.skip_relaxation, the diagnostics only
\* with args.save_outputs, and after the relaxation when there is one.
C17_StagesInOrder ==
    \A p \in DOMAIN status :
        LET t == status[p]
        IN  /\ t[1] = "Pending"
            /\ \A i, j \in DOMAIN t : i < j => StageRank(t[i]) < StageRank(t[j])
            /\ \A i \in DOMAIN t :
                  t[i] # "Failed" =>
                      \A m \in MandatoryStages :
                          StageRank(m) < StageRank(t[i]) => Reached(p, m)
            /\ Reached(p, "Compiled") =>
                  /\ args.trace_model
                  /\ \E d \in decisions :
                        d.model = p[1] /\ d.ti = p[2] /\ d.decision /\ d.traced
            /\ Reached(p, "Relaxed") => ~args.skip_relaxation
            /\ Reached(p, "MetricsSaved") =>
                  /\ args.save_outputs
                  /\ ~args.skip_relaxation => Reached(p, "Relaxed")
            /\ Reached(p, "Done") =>
                  /\ ~args.skip_relaxation => Reached(p, "Relaxed")
                  /\ args.save_outputs => Reached(p, "MetricsSaved")

\* one pair went through every stage and another is Done without the
\* tracing
C17_Witness ==
    /\ \E p \in DOMAIN status :
          status[p] = << "Pending", "AlignmentReady", "FeatureReady",
                         "Compiled", "Inferred", "Written", "Relaxed",
                         "MetricsSaved", "Done" >>
    /\ \E p \in DOMAIN status :
          State(p) = "Done" /\ ~Reached(p, "Compiled")

\* C18: with tracing enabled, the rounded length compared against
\* cur_tracing_interval for a pair, and recorded as compiled when the
\* pair is traced, is the rounded length of the pair's own target, also
\* when the feature record comes from the cache; stated for runs without
\* an exception and with distinct composite tags.
C18_ComparesOwnBucket ==
    (args.trace_model /\ UniqueTags /\ failures = {}) =>
        \A d \in decisions : d.rounded = OwnBucket(d.ti)

\* what one step may do to cur_tracing_interval
BucketStep ==
    /\ model' # model => cur_tracing_interval' = 0
    /\ (model' = model /\ cur_tracing_interval' # cur_tracing_interval) =>
          /\ pc = "trace" /\ pc' = "infer"
          /\ cur_tracing_interval' > cur_tracing_interval
          /\ status'[<<model, ti>>] = Append(status[<<model, ti>>], "Compiled")

\* C19: cur_tracing_interval is 0 whenever a model starts; while a model
\* runs it changes only in the step that completes a tracing, and then to
\* a strictly greater value, so it never decreases within a model.
C19_BucketMonotone == [][BucketStep]_vars

\* the first model compiled two buckets one after the other and the
\* second model has started from 0
C19_Witness ==
    /\ model = 2
    /\ cur_tracing_interval = 0
    /\ \E d, e \in decisions :
          /\ d.model = 1 /\ e.model = 1
          /\ d.traced /\ e.traced
          /\ d.before = 0 /\ e.before = d.rounded /\ e.rounded > e.before

\* C20: with tracing, the record of a tag whose assembled length is
\* n >= 1 has, in the memo and wherever it is used afterwards, the length
\* m = round_up_seqlen(n): m is the smallest multiple of TRACING_INTERVAL
\* that is >= n, so n <= m < n + TRACING_INTERVAL and m = n when n is a
\* multiple already; the record was padded exactly once, whatever the
\* number of lookups.
C20_PaddedOnceToBucket ==
    (padding.pc = "lookup" /\ padding.trace_model /\ padding.lookups > 0) =>
        LET n == padding.n
            m == padding.feature_dicts[PaddingTag].n
        IN  /\ padding.feature_dict.n = m
            /\ padding.rounded_seqlen = m
            /\ m % TRACING_INTERVAL = 0
            /\ m >= n
            /\ \A k \in n..(m - 1) : k % TRACING_INTERVAL # 0
            /\ m < n + TRACING_INTERVAL
            /\ n % TRACING_INTERVAL = 0 => m = n
            /\ padding.pads = 1

\* a record of length 51 was padded to 100, cached, and read from the
\* memo in every later lookup
C20_Witness ==
    /\ padding.pc = "lookup" /\ padding.trace_model
    /\ padding.n = TRACING_INTERVAL + 1
    /\ padding.lookups = MaxLookups
    /\ padding.feature_dict.n = 2 * TRACING_INTERVAL
    /\ padding.pads = 1

\* C21: in homo-mode, after every iteration of every view the row of the
\* result for that iteration has both unpaired counts 0, and its paired
\* count is the number of rows of the iteration's alignment that are not
\* entirely padding and not all gaps in chain 1's columns.
C21_HomoCountsOnlyPaired ==
    (stats.pc \in {"loop", "done"} /\ stats.if_homo /\ stats.i > 0) =>
        LET slice == stats.batch_msa
            row == stats.res[stats.i]
        IN  /\ row.unpaired_chain_1 = 0
            /\ row.unpaired_chain_2 = 0
            /\ row.paired =
                  Cardinality({ r \in NonPaddingRows(slice) : InChain1(slice[r]) })

\* a call in homo-mode has counted two iterations: two present rows in
\* the first, and in the second one present row next to a row of gaps
C21_Witness ==
    /\ stats.pc = "done" /\ stats.if_homo
    /\ stats.i = 2
    /\ stats.res[1].paired = 2
    /\ stats.res[2].paired = 1
    /\ \E r \in DOMAIN stats.batch_msa :
          \A c \in DOMAIN stats.batch_msa[r] : stats.batch_msa[r][c] = GapSentinel

\* C22: the feature record a pair goes on with after the lookup of
\* 318-332 was assembled from the chain tags and the sequences of the
\* pair's own target; stated for runs without an exception.
C22_OwnFeatureRecord ==
    (pc = "process" /\ failures = {}) =>
        /\ feature_dict.tags = cur.tags
        /\ feature_dict.seqs = cur.seqs

====
